---- MODULE Spec2Model ----
(***************************************************************************)
(* Dorm Management Portal (FastAPI + SQLModel on SQLite).                  *)
(*                                                                         *)
(* State: the three tables (DormUser, Student, DailyReport), the uploads   *)
(* directory, the browser session cookie, the queue of background email    *)
(* tasks, the wall clock, the settings, and one record per request worker  *)
(* giving the handler it runs, its position and its local variables.       *)
(*                                                                         *)
(* Conventions.  A text is a sequence of one-character strings.  An        *)
(* optional value (Python's None or a value) is the empty set or a         *)
(* singleton.  A calendar date is <<year, month, day>>.  A stored          *)
(* image_path is <<"/uploads/", n>> where n stands for the generated file  *)
(* name "<uuid4>_<original name>".                                         *)
(***************************************************************************)
EXTENDS Integers, Sequences, FiniteSets, TLC

VARIABLES settings, session, users, students, reports, files, tasks,
          outbox, now, h

vars == <<settings, session, users, students, reports, files, tasks,
          outbox, now, h>>

Workers == {1, 2}

\* ------------------------------------------------------- optional values
None == {}

Some(x) == {x}

Val(o) == CHOOSE x \in o : TRUE

\* ------------------------------------------------------------------ texts
Space == " "

RECURSIVE lstrip(_)
lstrip(s) == IF s # <<>> /\ Head(s) = Space THEN lstrip(Tail(s)) ELSE s

RECURSIVE rstrip(_)
rstrip(s) ==
    IF s # <<>> /\ s[Len(s)] = Space THEN rstrip(SubSeq(s, 1, Len(s) - 1)) ELSE s

\* str.strip()
strip(s) == rstrip(lstrip(s))

LowerChar(c) == CASE c = "A" -> "a" [] c = "B" -> "b" [] OTHER -> c

\* str.lower()
lower(s) == [i \in 1..Len(s) |-> LowerChar(s[i])]

\* Python truthiness of an Optional[str]: None and "" are both false.
Truthy(o) == o # None /\ Val(o) # <<>>

\* (x or "")
OrEmpty(o) == IF Truthy(o) THEN Val(o) ELSE <<>>

Max(S) == CHOOSE x \in S : \A y \in S : y <= x

\* SQLite INTEGER PRIMARY KEY without AUTOINCREMENT: one more than the
\* largest rowid in the table.
NextId(table) == IF table = {} THEN 1 ELSE Max({r.id : r \in table}) + 1

\* --------------------------------------------------------------- responses
NoBody == <<>>

NoResponse == [status |-> 0, url |-> <<>>, flash |-> "none", msg |-> "", body |-> NoBody]

Redirect(url, flash, msg) ==
    [status |-> 303, url |-> url, flash |-> flash, msg |-> msg, body |-> NoBody]

Page(template, status, flash, msg, body) ==
    [status |-> status, url |-> <<template>>, flash |-> flash, msg |-> msg, body |-> body]

\* raise HTTPException(status_code=404, ...)
HttpError(code, msg) ==
    [status |-> code, url |-> <<>>, flash |-> "none", msg |-> msg, body |-> NoBody]

\* An exception no handler catches: Starlette answers 500.
ServerError(msg) == HttpError(500, msg)

\* ---------------------------------------------------------------- workers
\* The routes whose handler declares session: Session = Depends(get_session).
SessionRoutes ==
    {"google_callback", "students_page", "create_student", "student_edit_page",
     "student_edit_submit", "student_delete", "student_detail", "report_list",
     "report_new", "create_report", "report_edit_page", "report_edit_submit",
     "report_delete", "send_report_command"}

\* get_session: the Session the dependency hands to the handler of route op,
\* as it stands from then on.  FastAPI calls the dependency before the
\* handler's first statement.  get_session returns Session(engine): it is a
\* plain function, not a generator with a finally, so nothing runs for it
\* when the request ends, and no handler calls session.close() or uses the
\* session in a with block.  "closed" is therefore a value no route reaches.
get_session(op) == IF op \in SessionRoutes THEN "open" ELSE "none"

Idle == [op |-> "idle", pc |-> "idle", authed |-> FALSE, queried |-> FALSE,
         args |-> <<>>, loc |-> <<>>, resp |-> NoResponse, background |-> <<>>,
         db |-> "none"]

IsIdle(w) == h[w].pc = "idle"

Done(w) == h[w].pc = "done"

Finish(op, authed, queried, args, loc, resp) ==
    [op |-> op, pc |-> "done", authed |-> authed, queried |-> queried,
     args |-> args, loc |-> loc, resp |-> resp, background |-> <<>>,
     db |-> get_session(op)]

Step(op, pc, args, loc) ==
    [op |-> op, pc |-> pc, authed |-> TRUE, queried |-> TRUE,
     args |-> args, loc |-> loc, resp |-> NoResponse, background |-> <<>>,
     db |-> get_session(op)]

\* ------------------------------------------------------ authentication gate
\* get_current_user: None without a "user" entry, else the entry as a DormUser
\* (a table model: construction validates nothing and raises nothing).
get_current_user(sess) == sess

UserOrRedirectIgnoresEmail(sess) == get_current_user(sess) # None

\* require_user_or_redirect: TRUE when it returns the user, FALSE when it
\* returns RedirectResponse("/login", 303).
require_user_or_redirect(sess) ==
    LET user == get_current_user(sess)
    IN  ~(user = None \/ Val(user).email = <<>>)

LoginRedirect == Redirect(<<"/login">>, "none", "")

\* _require_login, as every gated handler uses it: the handler's first
\* statement, before any query.
_require_login(sess) == IF require_user_or_redirect(sess) THEN None ELSE Some(LoginRedirect)

\* The whole of a gated request made without a usable identity.
GateRejects(w, op, args) ==
    /\ IsIdle(w)
    /\ _require_login(session) # None
    /\ h' = [h EXCEPT ![w] = Finish(op, FALSE, FALSE, args, <<>>, Val(_require_login(session)))]
    /\ UNCHANGED <<settings, session, users, students, reports, files, tasks, outbox, now>>

GatePasses(w) == IsIdle(w) /\ _require_login(session) = None

\* ------------------------------------------------------------ session routes
\* POST /login/dev
login_dev(w) ==
    /\ IsIdle(w)
    /\ IF ~settings.dev_mode
       THEN /\ h' = [h EXCEPT ![w] = Finish("login_dev", FALSE, FALSE, <<>>, <<>>,
                        Redirect(<<"/login">>, "error", "Dev mode is disabled"))]
            /\ UNCHANGED session
       ELSE /\ session' = Some([id |-> None, email |-> settings.dev_user_email,
                                name |-> settings.dev_user_name,
                                picture_url |-> None, dev |-> TRUE])
            /\ h' = [h EXCEPT ![w] = Finish("login_dev", FALSE, FALSE, <<>>, <<>>,
                        Redirect(<<"/students">>, "success", "Dev login enabled"))]
    /\ UNCHANGED <<settings, users, students, reports, files, tasks, outbox, now>>

\* GET /logout
logout(w) ==
    /\ IsIdle(w)
    /\ session' = None
    /\ h' = [h EXCEPT ![w] = Finish("logout", FALSE, FALSE, <<>>, <<>>,
                Redirect(<<"/login">>, "success", "Signed out"))]
    /\ UNCHANGED <<settings, users, students, reports, files, tasks, outbox, now>>

\* ----------------------------------------------------------- user directory
UserText == <<"U", "s", "e", "r">>

UpsertEmailKeepsCase(userinfo) == strip(OrEmpty(userinfo.email))

\* upsert_user_from_google, line 64
UpsertEmail(userinfo) == lower(strip(OrEmpty(userinfo.email)))

\* upsert_user_from_google, line 65
UpsertName(userinfo) ==
    LET email == UpsertEmail(userinfo)
    IN  strip(IF Truthy(userinfo.name) THEN Val(userinfo.name)
              ELSE IF Truthy(userinfo.given_name) THEN Val(userinfo.given_name)
              ELSE IF email # <<>> THEN email
              ELSE UserText)

\* select(DormUser).where(DormUser.email == email) ... .first(): the id of the
\* row found, or None.  SQLite compares TEXT with the BINARY collation.
SelectUserByEmail(table, email) ==
    LET found == {u \in table : u.email = email}
    IN  IF found = {} THEN None ELSE Some((CHOOSE u \in found : TRUE).id)

\* The existing branch: UPDATE name and picture_url of the row loaded.
UpdateUser(table, id, name, picture) ==
    {IF u.id = id THEN [u EXCEPT !.name = name, !.picture_url = picture] ELSE u :
        u \in table}

\* The unique index on dormuser.email (models.py, unique=True).
EmailTaken(table, email) == \E u \in table : u.email = email

\* The new branch: INSERT with a store-assigned id.
InsertUser(table, email, name, picture) ==
    table \cup {[id |-> NextId(table), email |-> email, name |-> name,
                 picture_url |-> picture]}

SessionUser(u) ==
    [id |-> Some(u.id), email |-> u.email, name |-> u.name,
     picture_url |-> u.picture_url, dev |-> FALSE]

\* GET /auth/google/callback, up to and including the select of
\* upsert_user_from_google.  hs is what the identity provider answered:
\* hs.ok = FALSE is an OAuthError; hs.userinfo = None is a token without a
\* profile whose userinfo endpoint failed too.
google_callback_begin(w, hs) ==
    /\ IsIdle(w)
    /\ UNCHANGED <<settings, session, users, students, reports, files, tasks, outbox, now>>
    /\ IF ~hs.ok
       THEN h' = [h EXCEPT ![w] = Finish("google_callback", FALSE, FALSE, hs, <<>>,
                    Redirect(<<"/login">>, "error", "Google login failed"))]
       ELSE IF hs.userinfo = None \/ ~Truthy(Val(hs.userinfo).email)
       THEN h' = [h EXCEPT ![w] = Finish("google_callback", FALSE, FALSE, hs, <<>>,
                    Redirect(<<"/login">>, "error", "Could not read Google profile"))]
       ELSE LET userinfo == Val(hs.userinfo)
                email == UpsertEmail(userinfo)
            IN  h' = [h EXCEPT ![w] =
                        [Step("google_callback", "upsert_write", hs,
                              [email |-> email, name |-> UpsertName(userinfo),
                               picture |-> userinfo.picture,
                               existing |-> SelectUserByEmail(users, email)])
                         EXCEPT !.authed = FALSE]]

\* The rest of upsert_user_from_google (add, commit, refresh) and of
\* google_callback (the session entry and the redirect).  A commit that breaks
\* the unique index raises IntegrityError, which nothing catches.
google_callback_commit(w) ==
    /\ h[w].op = "google_callback" /\ h[w].pc = "upsert_write"
    /\ LET l == h[w].loc
           signed_in == Redirect(<<"/students">>, "success", "Signed in")
       IN  IF l.existing # None
           THEN /\ users' = UpdateUser(users, Val(l.existing), l.name, l.picture)
                /\ session' = Some(SessionUser(
                                  CHOOSE u \in users' : u.id = Val(l.existing)))
                /\ h' = [h EXCEPT ![w] = Finish("google_callback", FALSE, TRUE,
                            h[w].args, l, signed_in)]
           ELSE IF EmailTaken(users, l.email)
           THEN /\ h' = [h EXCEPT ![w] = Finish("google_callback", FALSE, TRUE,
                            h[w].args, l, ServerError("IntegrityError"))]
                /\ UNCHANGED <<users, session>>
           ELSE /\ users' = InsertUser(users, l.email, l.name, l.picture)
                /\ session' = Some(SessionUser(
                                  CHOOSE u \in users' : u.email = l.email))
                /\ h' = [h EXCEPT ![w] = Finish("google_callback", FALSE, TRUE,
                            h[w].args, l, signed_in)]
    /\ UNCHANGED <<settings, students, reports, files, tasks, outbox, now>>

\* The response is sent, the background tasks added to it start, and the
\* worker takes the next request.
Respond(w) ==
    /\ Done(w)
    /\ h' = [h EXCEPT ![w] = Idle]
    /\ tasks' = tasks \o h[w].background
    /\ UNCHANGED <<settings, session, users, students, reports, files, outbox, now>>

\* ------------------------------------------------------------ entity store
GetStudent(id) == {st \in students : st.id = id}

GetReport(id) == {r \in reports : r.id = id}

RECURSIVE IsPrefix(_, _)
IsPrefix(q, s) ==
    \/ q = <<>>
    \/ s # <<>> /\ Head(q) = Head(s) /\ IsPrefix(Tail(q), Tail(s))

RECURSIVE IsInfix(_, _)
IsInfix(q, s) == IsPrefix(q, s) \/ (s # <<>> /\ IsInfix(q, Tail(s)))

\* column.contains(q): LIKE '%' || q || '%', which SQLite decides without
\* regard to ASCII case.
Contains(s, q) == IsInfix(lower(q), lower(s))

\* GET /students
students_page(w, q) ==
    \/ GateRejects(w, "students_page", [q |-> q])
    \/ /\ GatePasses(w)
       /\ LET term == strip(OrEmpty(q))
              found == IF term # <<>>
                       THEN {st \in students :
                               Contains(st.name, term) \/ Contains(st.email, term)}
                       ELSE students
          IN  h' = [h EXCEPT ![w] = Finish("students_page", TRUE, TRUE, [q |-> q], <<>>,
                       Page("students.html", 200, "none", "", found))]
       /\ UNCHANGED <<settings, session, users, students, reports, files, tasks, outbox, now>>

\* POST /students
create_student(w, name, email) ==
    LET args == [email |-> email, name |-> name]
    IN  \/ GateRejects(w, "create_student", args)
        \/ /\ GatePasses(w)
           /\ LET id == NextId(students)
              IN  /\ students' = students \cup
                        {[id |-> id, email |-> strip(email), name |-> strip(name)]}
                  /\ h' = [h EXCEPT ![w] = Finish("create_student", TRUE, TRUE, args, <<>>,
                              Redirect(<<"/students", id>>, "none", ""))]
           /\ UNCHANGED <<settings, session, users, reports, files, tasks,
                          outbox, now>>

StudentNotFound == Redirect(<<"/students">>, "error", "Student not found")

\* GET /students/{student_id}/edit
student_edit_page(w, student_id) ==
    LET args == [student_id |-> student_id]
    IN  \/ GateRejects(w, "student_edit_page", args)
        \/ /\ GatePasses(w)
           /\ h' = [h EXCEPT ![w] = Finish("student_edit_page", TRUE, TRUE, args, <<>>,
                       IF GetStudent(student_id) = {} THEN StudentNotFound
                       ELSE Page("student_edit.html", 200, "none", "",
                                 GetStudent(student_id)))]
           /\ UNCHANGED <<settings, session, users, students, reports, files, tasks, outbox, now>>

\* POST /students/{student_id}/edit
student_edit_submit(w, student_id, name, email) ==
    LET args == [email |-> email, name |-> name, student_id |-> student_id]
    IN  \/ GateRejects(w, "student_edit_submit", args)
        \/ /\ GatePasses(w)
           /\ IF GetStudent(student_id) = {}
              THEN /\ h' = [h EXCEPT ![w] = Finish("student_edit_submit", TRUE, TRUE,
                               args, <<>>, StudentNotFound)]
                   /\ UNCHANGED students
              ELSE /\ students' =
                        {IF st.id = student_id
                         THEN [st EXCEPT !.name = strip(name), !.email = strip(email)]
                         ELSE st : st \in students}
                   /\ h' = [h EXCEPT ![w] = Finish("student_edit_submit", TRUE, TRUE,
                               args, <<>>,
                               Redirect(<<"/students", student_id>>, "success",
                                        "Student updated"))]
           /\ UNCHANGED <<settings, session, users, reports, files, tasks,
                          outbox, now>>

\* -------------------------------------------------------- attachment manager
UploadsPrefix == "/uploads/"

\* A cleanup that never finds a file to unlink.
UnlinkTargetNothing(image_path, disk) == {}

\* _try_delete_uploaded_file: the file the call would unlink, if any.
UnlinkTarget(image_path, disk) ==
    IF image_path = None THEN {}
    ELSE IF Val(image_path)[1] # UploadsPrefix THEN {}
    ELSE {Val(image_path)[2]} \cap disk

\* What disk_path.unlink() can do to each target: remove it, or raise the
\* OSError that _try_delete_uploaded_file swallows.  The value is every set
\* of files that may end up removed.
UnlinkOutcomes(targets) == SUBSET targets

\* _save_upload: the path of the file written.
_save_upload(n) == Some(<<UploadsPrefix, n>>)

\* The file names in use: on disk, or recorded in a report.
LiveNames ==
    files \cup {Val(r.image_path)[2] : r \in {x \in reports : x.image_path # None}}

\* uuid4().hex in _save_upload: a name no file has and no report records.
\* Which one is of no consequence; the least unused number stands for it.
FreshName ==
    CHOOSE n \in 1..(Cardinality(LiveNames) + 1) :
        n \notin LiveNames /\ \A m \in 1..(n - 1) : m \in LiveNames

\* ----------------------------------------------------------- student delete
\* POST /students/{student_id}/delete, up to session.get(Student, student_id).
student_delete_begin(w, student_id) ==
    LET args == [student_id |-> student_id]
    IN  \/ GateRejects(w, "student_delete", args)
        \/ /\ GatePasses(w)
           /\ h' = [h EXCEPT ![w] =
                       IF GetStudent(student_id) = {}
                       THEN Finish("student_delete", TRUE, TRUE, args, <<>>, StudentNotFound)
                       ELSE Step("student_delete", "cleanup", args, <<>>)]
           /\ UNCHANGED <<settings, session, users, students, reports, files, tasks, outbox, now>>

\* The reports the cleanup loop enumerates (line 228).
ReportsOf(student_id) == {r \in reports : r.student_id = student_id}

\* Lines 228-230: select the student's reports and try to delete each one's
\* uploaded file.  loc records which files the loop tried and which unlinks
\* raised.
student_delete_cleanup(w) ==
    /\ h[w].op = "student_delete" /\ h[w].pc = "cleanup"
    /\ LET owned == ReportsOf(h[w].args.student_id)
           targets == UNION {UnlinkTarget(r.image_path, files) : r \in owned}
       IN  \E removed \in UnlinkOutcomes(targets) :
              /\ files' = files \ removed
              /\ h' = [h EXCEPT ![w] =
                          Step("student_delete", "commit", h[w].args,
                               [owned |-> {r.id : r \in owned}, tried |-> targets,
                                failed |-> targets \ removed])]
    /\ UNCHANGED <<settings, session, users, students, reports, tasks,
                   outbox, now>>

StudentDeleteKeepsReports(table, student_id) == table

\* delete(DailyReport).where(DailyReport.student_id == student_id)
DeleteReportsOf(table, student_id) == {r \in table : r.student_id # student_id}

\* Lines 233-237: DELETE the reports, DELETE the student, commit.  A DELETE
\* that matches no row (the student is already gone) is not an error.
student_delete_commit(w) ==
    /\ h[w].op = "student_delete" /\ h[w].pc = "commit"
    /\ LET student_id == h[w].args.student_id
       IN  /\ reports' = DeleteReportsOf(reports, student_id)
           /\ students' = {st \in students : st.id # student_id}
    /\ h' = [h EXCEPT ![w] = Finish("student_delete", TRUE, TRUE, h[w].args, h[w].loc,
                Redirect(<<"/students">>, "success", "Student deleted"))]
    /\ UNCHANGED <<settings, session, users, files, tasks, outbox, now>>

\* ------------------------------------------------------------- report lists
\* date.__lt__
DateLess(a, b) ==
    \/ a[1] < b[1]
    \/ a[1] = b[1] /\ a[2] < b[2]
    \/ a[1] = b[1] /\ a[2] = b[2] /\ a[3] < b[3]

BeforeOldestCreatedFirst(a, b) ==
    \/ DateLess(b.report_date, a.report_date)
    \/ a.report_date = b.report_date /\ a.created_at < b.created_at

\* order_by(DailyReport.report_date.desc(), DailyReport.created_at.desc()):
\* row a must come before row b.
Before(a, b) ==
    \/ DateLess(b.report_date, a.report_date)
    \/ a.report_date = b.report_date /\ a.created_at > b.created_at

\* Every sequence the ORDER BY may return for the rows S: rows that agree on
\* both sort keys come in an order the engine chooses.
RECURSIVE OrderBy(_)
OrderBy(S) ==
    IF S = {} THEN {<<>>}
    ELSE UNION {{<<m>> \o t : t \in OrderBy(S \ {m})} :
                   m \in {x \in S : \A y \in S : ~Before(y, x)}}

\* .limit(n)
Limit(seq, n) == IF Len(seq) <= n THEN seq ELSE SubSeq(seq, 1, n)

DetailLimit == 10

HttpStudentNotFound == HttpError(404, "Student not found")

\* GET /students/{student_id}
student_detail(w, student_id) ==
    LET args == [student_id |-> student_id]
    IN  \/ GateRejects(w, "student_detail", args)
        \/ /\ GatePasses(w)
           /\ IF GetStudent(student_id) = {}
              THEN h' = [h EXCEPT ![w] = Finish("student_detail", TRUE, TRUE, args,
                            <<>>, HttpStudentNotFound)]
              ELSE \E rows \in OrderBy(ReportsOf(student_id)) :
                      h' = [h EXCEPT ![w] = Finish("student_detail", TRUE, TRUE, args,
                               <<>>, Page("student_detail.html", 200, "none", "",
                                          Limit(rows, DetailLimit)))]
           /\ UNCHANGED <<settings, session, users, students, reports, files, tasks, outbox, now>>

\* GET /students/{student_id}/reports
report_list(w, student_id) ==
    LET args == [student_id |-> student_id]
    IN  \/ GateRejects(w, "report_list", args)
        \/ /\ GatePasses(w)
           /\ IF GetStudent(student_id) = {}
              THEN h' = [h EXCEPT ![w] = Finish("report_list", TRUE, TRUE, args,
                            <<>>, HttpStudentNotFound)]
              ELSE \E rows \in OrderBy(ReportsOf(student_id)) :
                      h' = [h EXCEPT ![w] = Finish("report_list", TRUE, TRUE, args,
                               <<>>, Page("report_list.html", 200, "none", "", rows))]
           /\ UNCHANGED <<settings, session, users, students, reports, files, tasks, outbox, now>>

\* GET /students/{student_id}/reports/new
report_new(w, student_id) ==
    LET args == [student_id |-> student_id]
    IN  \/ GateRejects(w, "report_new", args)
        \/ /\ GatePasses(w)
           /\ h' = [h EXCEPT ![w] = Finish("report_new", TRUE, TRUE, args, <<>>,
                       IF GetStudent(student_id) = {} THEN HttpStudentNotFound
                       ELSE Page("report_new.html", 200, "none", "",
                                 GetStudent(student_id)))]
           /\ UNCHANGED <<settings, session, users, students, reports, files, tasks, outbox, now>>

\* ------------------------------------------------------------------- dates
DaysInMonth(y, m) ==
    IF m = 2
    THEN (IF y % 4 = 0 /\ (y % 100 # 0 \/ y % 400 = 0) THEN 29 ELSE 28)
    ELSE IF m \in {4, 6, 9, 11} THEN 30 ELSE 31

\* date.fromisoformat on the form field.  raw is the text's three numeric
\* fields, or <<>> for a text that is not of the form YYYY-MM-DD.  The value
\* is the date, or None where Python raises ValueError.
fromisoformat(raw) ==
    IF /\ Len(raw) = 3
       /\ raw[1] \in 1..9999
       /\ raw[2] \in 1..12
       /\ raw[3] \in 1..DaysInMonth(raw[1], raw[2])
    THEN Some(raw)
    ELSE None

\* ------------------------------------------------------------ daily reports
\* Field(default=None, ge=1, le=5) as declared on DailyReport.rating.
RatingInRange(rating) == rating = None \/ (1 <= Val(rating) /\ Val(rating) <= 5)

\* DailyReport(...): SQLModel builds a table=True model without running the
\* field validators, so the declared range of rating is not applied and the
\* constructor never raises.
DailyReport(id, student_id, report_date, notes, rating, image_url, image_path, created_at) ==
    [id |-> id, student_id |-> student_id, image_path |-> image_path,
     report_date |-> report_date, created_at |-> created_at, rating |-> rating,
     notes |-> notes, image_url |-> image_url]

\* POST /students/{student_id}/reports, up to session.get(Student, student_id).
\* has_file: the form carries a file with a non-empty filename.
create_report_begin(w, student_id, report_date, notes, rating, image_url, has_file) ==
    LET args == [student_id |-> student_id, report_date |-> report_date,
                 rating |-> rating, notes |-> notes, image_url |-> image_url,
                 has_file |-> has_file]
    IN  \/ GateRejects(w, "create_report", args)
        \/ /\ GatePasses(w)
           /\ h' = [h EXCEPT ![w] =
                       IF GetStudent(student_id) = {}
                       THEN Finish("create_report", TRUE, TRUE, args, <<>>,
                                   HttpStudentNotFound)
                       ELSE Step("create_report", "insert", args, <<>>)]
           /\ UNCHANGED <<settings, session, users, students, reports, files, tasks, outbox, now>>

\* Lines 345-362: parse the date, store the upload, INSERT, commit.  SQLite
\* does not enforce the foreign key on student_id (the engine never turns
\* PRAGMA foreign_keys on), so the INSERT succeeds whatever student_id is.
create_report_insert(w) ==
    /\ h[w].op = "create_report" /\ h[w].pc = "insert"
    /\ LET a == h[w].args
           parsed_date == fromisoformat(a.report_date)
       IN  IF parsed_date = None
           THEN /\ h' = [h EXCEPT ![w] = Finish("create_report", TRUE, TRUE, a, <<>>,
                            ServerError("ValueError"))]
                /\ UNCHANGED <<reports, files>>
           ELSE LET image_path == IF a.has_file THEN _save_upload(FreshName) ELSE None
                    report == DailyReport(NextId(reports), a.student_id,
                                  Val(parsed_date), strip(a.notes), a.rating,
                                  IF Truthy(a.image_url) THEN Some(strip(Val(a.image_url)))
                                  ELSE None,
                                  image_path, now)
                IN  /\ files' = IF a.has_file THEN files \cup {FreshName} ELSE files
                    /\ reports' = reports \cup {report}
                    /\ h' = [h EXCEPT ![w] = Finish("create_report", TRUE, TRUE,
                                a, [id |-> report.id],
                                Redirect(<<"/students", a.student_id>>,
                                         "success", "Report saved"))]
    /\ UNCHANGED <<settings, session, users, students, tasks, outbox, now>>

ReportNotFound(student_id) ==
    Redirect(<<"/students", student_id, "reports">>, "error", "Report not found")

\* The lookup without the ownership check: the report of any student.
OwnedReportOfAnyStudent(student_id, report_id) == GetReport(report_id)

\* session.get(DailyReport, report_id), then the ownership check of lines 411
\* and 450: the report, or None for "not report or report.student_id !=
\* student_id".
OwnedReport(student_id, report_id) ==
    {r \in GetReport(report_id) : r.student_id = student_id}

\* GET /students/{student_id}/reports/{report_id}/edit
report_edit_page(w, student_id, report_id) ==
    LET args == [student_id |-> student_id, report_id |-> report_id]
    IN  \/ GateRejects(w, "report_edit_page", args)
        \/ /\ GatePasses(w)
           /\ h' = [h EXCEPT ![w] = Finish("report_edit_page", TRUE, TRUE, args, <<>>,
                       IF GetStudent(student_id) = {} THEN StudentNotFound
                       ELSE IF OwnedReport(student_id, report_id) = None
                       THEN ReportNotFound(student_id)
                       ELSE Page("report_edit.html", 200, "none", "",
                                 OwnedReport(student_id, report_id)))]
           /\ UNCHANGED <<settings, session, users, students, reports, files, tasks, outbox, now>>

\* Lines 418-423: the pasted-URL slot after the edit.
EditedImageUrlValueWins(old, image_url, clear_image_url) ==
    IF image_url # None /\ strip(Val(image_url)) # <<>> THEN Some(strip(Val(image_url)))
    ELSE IF Truthy(clear_image_url) THEN None
    ELSE old

EditedImageUrl(old, image_url, clear_image_url) ==
    IF Truthy(clear_image_url) THEN None
    ELSE IF image_url # None /\ strip(Val(image_url)) # <<>>
    THEN Some(strip(Val(image_url)))
    ELSE old

\* POST /students/{student_id}/reports/{report_id}/edit
report_edit_submit(w, student_id, report_id, report_date, notes, rating, image_url, clear_image_url, clear_image_upload, has_file) ==
    LET args == [student_id |-> student_id, report_date |-> report_date,
                 rating |-> rating, notes |-> notes, image_url |-> image_url,
                 has_file |-> has_file, report_id |-> report_id,
                 clear_image_url |-> clear_image_url, clear_image_upload |-> clear_image_upload]
        found == OwnedReport(student_id, report_id)
        parsed_date == fromisoformat(report_date)
    IN  \/ GateRejects(w, "report_edit_submit", args)
        \/ /\ GatePasses(w)
           /\ GetStudent(student_id) = {} \/ found = None \/ parsed_date = None
           /\ h' = [h EXCEPT ![w] = Finish("report_edit_submit", TRUE, TRUE, args, <<>>,
                       IF GetStudent(student_id) = {} THEN StudentNotFound
                       ELSE IF found = None THEN ReportNotFound(student_id)
                       ELSE ServerError("ValueError"))]
           /\ UNCHANGED <<settings, session, users, students, reports, files, tasks, outbox, now>>
        \/ /\ GatePasses(w)
           /\ GetStudent(student_id) # {} /\ found # None /\ parsed_date # None
           /\ LET old == Val(found)
                  \* if clear_image_upload: delete the file, forget the path
                  target1 == IF Truthy(clear_image_upload)
                             THEN UnlinkTarget(old.image_path, files) ELSE {}
              IN  \E removed1 \in UnlinkOutcomes(target1) :
                    LET path1 == IF Truthy(clear_image_upload) THEN None
                                 ELSE old.image_path
                        disk1 == files \ removed1
                        \* if image_file and image_file.filename: replace
                        target2 == IF has_file THEN UnlinkTarget(path1, disk1) ELSE {}
                    IN  \E removed2 \in UnlinkOutcomes(target2) :
                          LET path2 == IF has_file THEN _save_upload(FreshName) ELSE path1
                              disk2 == IF has_file
                                       THEN (disk1 \ removed2) \cup {FreshName}
                                       ELSE disk1
                              new == [old EXCEPT
                                        !.report_date = Val(parsed_date),
                                        !.notes = strip(notes),
                                        !.rating = rating,
                                        !.image_url = EditedImageUrl(old.image_url,
                                                         image_url, clear_image_url),
                                        !.image_path = path2]
                          IN  /\ files' = disk2
                              /\ reports' = (reports \ {old}) \cup {new}
                              /\ h' = [h EXCEPT ![w] =
                                         Finish("report_edit_submit", TRUE, TRUE, args,
                                                [failed |-> (target1 \ removed1)
                                                            \cup (target2 \ removed2),
                                                 old |-> old],
                                                Redirect(<<"/students", student_id, "reports">>,
                                                         "success", "Report updated"))]
           /\ UNCHANGED <<settings, session, users, students, tasks, outbox, now>>

\* POST /students/{student_id}/reports/{report_id}/delete
report_delete(w, student_id, report_id) ==
    LET args == [student_id |-> student_id, report_id |-> report_id]
        found == OwnedReport(student_id, report_id)
    IN  \/ GateRejects(w, "report_delete", args)
        \/ /\ GatePasses(w)
           /\ found = None
           /\ h' = [h EXCEPT ![w] = Finish("report_delete", TRUE, TRUE, args, <<>>,
                       ReportNotFound(student_id))]
           /\ UNCHANGED <<settings, session, users, students, reports, files, tasks, outbox, now>>
        \/ /\ GatePasses(w)
           /\ found # None
           /\ LET target == UnlinkTarget(Val(found).image_path, files)
              IN  \E removed \in UnlinkOutcomes(target) :
                    /\ files' = files \ removed
                    /\ reports' = reports \ found
                    /\ h' = [h EXCEPT ![w] =
                               Finish("report_delete", TRUE, TRUE, args,
                                      [failed |-> target \ removed, old |-> Val(found)],
                                      Redirect(<<"/students", student_id, "reports">>,
                                               "success", "Report deleted"))]
           /\ UNCHANGED <<settings, session, users, students, tasks, outbox, now>>

\* ------------------------------------------------------ notification dispatch
EmailConfiguredHostOnly(cfg) == cfg.smtp_host # None /\ Val(cfg.smtp_host) # <<>>

\* ensure_email_configured: TRUE when it returns, FALSE when it raises
\* EmailNotConfiguredError.
ensure_email_configured(cfg) == Truthy(cfg.smtp_host) /\ Truthy(cfg.smtp_from)

\* Lines 476-481: the reports of that student and date that .first() may
\* return under order_by(created_at.desc()).
LatestReportsOn(student_id, on_date) ==
    LET same == {r \in ReportsOf(student_id) : r.report_date = on_date}
    IN  {r \in same : \A o \in same : o.created_at <= r.created_at}

\* POST /students/{student_id}/send
send_report_command(w, student_id, report_date) ==
    LET args == [student_id |-> student_id, report_date |-> report_date]
        parsed_date == fromisoformat(report_date)
    IN  \/ GateRejects(w, "send_report_command", args)
        \/ /\ GatePasses(w)
           /\ GetStudent(student_id) = {} \/ parsed_date = None
           /\ h' = [h EXCEPT ![w] = Finish("send_report_command", TRUE, TRUE, args,
                       [found |-> FALSE],
                       IF GetStudent(student_id) = {} THEN HttpStudentNotFound
                       ELSE ServerError("ValueError"))]
           /\ UNCHANGED <<settings, session, users, students, reports, files, tasks, outbox, now>>
        \/ /\ GatePasses(w)
           /\ GetStudent(student_id) # {} /\ parsed_date # None
           /\ LatestReportsOn(student_id, Val(parsed_date)) = {}
           /\ \E recent \in OrderBy(ReportsOf(student_id)) :
                 h' = [h EXCEPT ![w] = Finish("send_report_command", TRUE, TRUE, args,
                          [found |-> FALSE],
                          Page("student_detail.html", 404, "error", "No report found",
                               Limit(recent, DetailLimit)))]
           /\ UNCHANGED <<settings, session, users, students, reports, files, tasks, outbox, now>>
        \/ /\ GatePasses(w)
           /\ GetStudent(student_id) # {} /\ parsed_date # None
           /\ \E report \in LatestReportsOn(student_id, Val(parsed_date)) :
              \E recent \in OrderBy(ReportsOf(student_id)) :
                 LET student == Val(GetStudent(student_id))
                     body == Limit(recent, DetailLimit)
                 IN  IF ensure_email_configured(settings)
                     THEN /\ h' = [h EXCEPT ![w] =
                                     [Finish("send_report_command", TRUE, TRUE, args,
                                             [found |-> TRUE],
                                             Page("student_detail.html", 200, "success",
                                                  "Queued email", body))
                                      EXCEPT !.background =
                                         <<[report_id |-> report.id,
                                            to_email |-> student.email]>>]]
                     ELSE /\ h' = [h EXCEPT ![w] =
                                     Finish("send_report_command", TRUE, TRUE, args,
                                            [found |-> TRUE],
                                            Page("student_detail.html", 200, "error",
                                                 "SMTP is not configured", body))]
           /\ UNCHANGED <<settings, session, users, students, reports, files, tasks, outbox, now>>

\* The background task: send_email.  delivered = FALSE is any failure of the
\* transport (or of ensure_email_configured); Starlette logs it and nothing
\* reaches the response, which has already been sent.
send_email(delivered) ==
    /\ tasks # <<>>
    /\ tasks' = Tail(tasks)
    /\ outbox' = IF delivered /\ ensure_email_configured(settings)
                 THEN outbox \cup {Head(tasks).to_email}
                 ELSE outbox
    /\ UNCHANGED <<settings, session, users, students, reports, files, now, h>>

\* datetime.utcnow() advances.
Tick ==
    /\ now' = now + 1
    /\ UNCHANGED <<settings, session, users, students, reports, files, tasks, outbox, h>>

\* ------------------------------------------------------------------ bounds
\* Rows, files and queued tasks under Spec, ConcSpec, SendSpec, RatingSpec and
\* ReportSpec.
MaxStudents == 1
MaxReports == 1
MaxUploads == 1
MaxTasks == 1

\* Rows and files under DeleteSpec.
DeleteMaxStudents == 2
DeleteMaxReports == 2
DeleteMaxUploads == 2

\* Rows and clock ticks under ListSpec, which starts with ListStored reports.
ListMaxReports == 12
ListMaxTicks == 1

\* ------------------------------------------------------------------ inputs
NoUserinfo == [email |-> None, name |-> None, given_name |-> None, picture |-> None]

Handshake(ok, userinfo) == [userinfo |-> userinfo, ok |-> ok]

\* A profile with nothing but an email.
Profile(email) == Handshake(TRUE, Some([NoUserinfo EXCEPT !.email = Some(email)]))

\* The handshakes a callback is tried with: a failed one, one without a
\* profile, and profiles with a usable and with a blank email.
Handshakes ==
    {Handshake(FALSE, None), Handshake(TRUE, None), Profile(<<"a">>), Profile(<<" ">>)}

\* Two spellings of one email.
ConcProfiles == {Profile(<<"a">>), Profile(<<"A">>)}

\* The handshakes of LoginSpec: the ones above, a profile without an
\* email, an empty email, and a second spelling.
LoginHandshakes ==
    Handshakes \cup ConcProfiles \cup {Handshake(TRUE, Some(NoUserinfo)), Profile(<<>>)}

\* The image_url form values of an edit: absent, blank and set.
EditImageUrls == {None, Some(<<" ">>), Some(<<"v">>)}

Jan1 == <<2024, 1, 1>>

Jan2 == <<2024, 1, 2>>

Feb30 == <<2024, 2, 30>>

NotADate == <<>>

\* Room for one more row, file or task under the bounds.
ReportRoom(n) ==
    Cardinality(reports)
      + Cardinality({v \in Workers : h[v].op = "create_report" /\ h[v].pc = "insert"}) < n

UploadRoom(n) ==
    Cardinality(LiveNames)
      + Cardinality({v \in Workers : /\ h[v].op = "create_report"
                                     /\ h[v].pc = "insert"
                                     /\ h[v].args.has_file}) < n

TaskRoom(n) == Len(tasks) < n /\ \A v \in Workers : h[v].background = <<>>

\* ----------------------------------------------------------- specification
InitWith(cfg) ==
    /\ settings = cfg
    /\ session = None
    /\ users = {}
    /\ students = {}
    /\ reports = {}
    /\ files = {}
    /\ tasks = <<>>
    /\ outbox = {}
    /\ now = 0
    /\ h = [w \in Workers |-> Idle]

\* config.py: the settings of an environment that sets none; the texts stand
\* for "dev@example.com" and "Dev User".
DefaultSettings ==
    [dev_mode |-> FALSE, dev_user_email |-> <<"d">>, dev_user_name |-> <<"D">>,
     smtp_host |-> None, smtp_from |-> None]

Init == InitWith(DefaultSettings)

\* Every route, under the default settings, requests served one at a time by
\* worker 1.
Next ==
    \/ login_dev(1)
    \/ logout(1)
    \/ \E hs \in Handshakes : google_callback_begin(1, hs)
    \/ google_callback_commit(1)
    \/ \E q \in {None, Some(<<"n">>)} : students_page(1, q)
    \/ Cardinality(students) < MaxStudents /\ create_student(1, <<"n">>, <<"s">>)
    \/ \E id \in 1..MaxStudents : student_edit_page(1, id)
    \/ \E id \in 1..MaxStudents : student_edit_submit(1, id, <<"n">>, <<"s">>)
    \/ \E id \in 1..MaxStudents : student_delete_begin(1, id)
    \/ student_delete_cleanup(1)
    \/ student_delete_commit(1)
    \/ \E id \in 1..MaxStudents : student_detail(1, id)
    \/ \E id \in 1..MaxStudents : report_list(1, id)
    \/ \E id \in 1..MaxStudents : report_new(1, id)
    \/ \E id \in 1..MaxStudents, d \in {NotADate, Jan1}, has_file \in BOOLEAN :
          /\ ReportRoom(MaxReports)
          /\ has_file => UploadRoom(MaxUploads)
          /\ create_report_begin(1, id, d, <<"k">>, None, None, has_file)
    \/ create_report_insert(1)
    \/ \E id \in 1..MaxStudents, rid \in 1..MaxReports : report_edit_page(1, id, rid)
    \/ \E id \in 1..MaxStudents, rid \in 1..MaxReports, d \in {NotADate, Jan1} :
          report_edit_submit(1, id, rid, d, <<"k">>, None, None, None, None, FALSE)
    \/ \E id \in 1..MaxStudents, rid \in 1..MaxReports : report_delete(1, id, rid)
    \/ \E id \in 1..MaxStudents, d \in {NotADate, Jan1} : send_report_command(1, id, d)
    \/ Respond(1)

Spec == Init /\ [][Next]_vars

\* Logins only, one at a time, over profiles that differ in case, padding,
\* names and picture.
UpsertProfiles ==
    {Handshake(TRUE, Some([email |-> Some(e), name |-> n, given_name |-> g,
                           picture |-> p])) :
        e \in {<<"A">>, <<" ", "a">>, <<"b">>},
        n \in {None, Some(<<" ", "N">>)},
        g \in {None, Some(<<"G">>)},
        p \in {None, Some("p")}}

UpsertNext ==
    \/ \E hs \in UpsertProfiles \cup {Handshake(FALSE, None)} : google_callback_begin(1, hs)
    \/ google_callback_commit(1)
    \/ Respond(1)

UpsertSpec == Init /\ [][UpsertNext]_vars

\* Two workers serve requests at the same time: logins for one email, and the
\* creation and deletion of a student and of its reports.
ConcNext ==
    \E w \in Workers :
        \/ \E hs \in ConcProfiles : google_callback_begin(w, hs)
        \/ google_callback_commit(w)
        \/ Cardinality(students) < MaxStudents /\ create_student(w, <<"n">>, <<"s">>)
        \/ \E id \in 1..MaxStudents : student_delete_begin(w, id)
        \/ student_delete_cleanup(w)
        \/ student_delete_commit(w)
        \/ \E id \in 1..MaxStudents :
              /\ ReportRoom(MaxReports)
              /\ create_report_begin(w, id, Jan1, <<"k">>, None, None, FALSE)
        \/ create_report_insert(w)
        \/ Respond(w)

ConcSpec == Init /\ [][ConcNext]_vars

\* Sending a report by email, under each setting of the mail server's host
\* and sender (unset, empty, set).
SendInit ==
    \E host \in {None, Some(<<"h">>)}, from \in {None, Some(<<>>), Some(<<"f">>)} :
        InitWith([DefaultSettings EXCEPT !.smtp_host = host, !.smtp_from = from])

SendNext ==
    \/ google_callback_begin(1, Profile(<<"a">>))
    \/ google_callback_commit(1)
    \/ Cardinality(students) < MaxStudents /\ create_student(1, <<"n">>, <<"s">>)
    \/ \E id \in 1..MaxStudents, d \in {Jan1, Jan2} :
          /\ ReportRoom(MaxReports)
          /\ create_report_begin(1, id, d, <<"k">>, None, None, FALSE)
    \/ create_report_insert(1)
    \/ \E id \in 1..MaxStudents, d \in {Jan1, Jan2} :
          TaskRoom(MaxTasks) /\ send_report_command(1, id, d)
    \/ \E delivered \in BOOLEAN : send_email(delivered)
    \/ Respond(1)

SendSpec == SendInit /\ [][SendNext]_vars

\* Creating and editing the reports of a student, over ratings in and out of
\* the range declared on DailyReport.rating.
Ratings == {None, Some(0), Some(1), Some(5), Some(6)}

RatingNext ==
    \/ google_callback_begin(1, Profile(<<"a">>))
    \/ google_callback_commit(1)
    \/ Cardinality(students) < MaxStudents /\ create_student(1, <<"n">>, <<"s">>)
    \/ \E id \in 1..MaxStudents, rating \in Ratings :
          /\ ReportRoom(MaxReports)
          /\ create_report_begin(1, id, Jan1, <<"k">>, rating, None, FALSE)
    \/ create_report_insert(1)
    \/ \E id \in 1..MaxStudents, rid \in 1..MaxReports, d \in {NotADate, Jan2},
          rating \in Ratings :
          report_edit_submit(1, id, rid, d, <<"k">>, rating, None, None, None, FALSE)
    \/ Respond(1)

RatingSpec == Init /\ [][RatingNext]_vars

\* Creating, editing and deleting the reports of a student, over the
\* pasted-URL slot's form fields.
ReportNext ==
    \/ google_callback_begin(1, Profile(<<"a">>))
    \/ google_callback_commit(1)
    \/ Cardinality(students) < MaxStudents /\ create_student(1, <<"n">>, <<"s">>)
    \/ \E id \in 1..MaxStudents, image_url \in {None, Some(<<"u">>)} :
          /\ ReportRoom(MaxReports)
          /\ create_report_begin(1, id, Jan1, <<"k">>, Some(5), image_url, FALSE)
    \/ create_report_insert(1)
    \/ \E id \in 1..MaxStudents, rid \in 1..MaxReports, d \in {Jan2, Feb30},
          image_url \in EditImageUrls,
          clear_image_url \in {None, Some(<<>>), Some(<<"1">>)} :
          report_edit_submit(1, id, rid, d, <<"k">>, None, image_url,
                           clear_image_url, None, FALSE)
    \/ \E id \in 1..MaxStudents, rid \in 1..MaxReports : report_delete(1, id, rid)
    \/ Respond(1)

ReportSpec == Init /\ [][ReportNext]_vars

\* Deleting students that own reports with and without uploaded files.
DeleteNext ==
    \/ google_callback_begin(1, Profile(<<"a">>))
    \/ google_callback_commit(1)
    \/ Cardinality(students) < DeleteMaxStudents /\ create_student(1, <<"n">>, <<"s">>)
    \/ \E id \in 1..DeleteMaxStudents, has_file \in BOOLEAN :
          /\ ReportRoom(DeleteMaxReports)
          /\ has_file => UploadRoom(DeleteMaxUploads)
          /\ create_report_begin(1, id, Jan1, <<"k">>, None, None, has_file)
    \/ create_report_insert(1)
    \/ \E id \in 1..DeleteMaxStudents : student_delete_begin(1, id)
    \/ student_delete_cleanup(1)
    \/ student_delete_commit(1)
    \/ Respond(1)

DeleteSpec == Init /\ [][DeleteNext]_vars

\* The report list and the detail view once a student owns more reports than
\* the detail view shows.  ListInit is the state after a login, the creation
\* of students 1 and 2 and of ListStored reports for student 1, one per clock
\* tick, on alternating dates.
ListStored == 9

ListInit ==
    /\ settings = DefaultSettings
    /\ users = {[id |-> 1, email |-> <<"a">>, name |-> <<"a">>, picture_url |-> None]}
    /\ session = Some(SessionUser(CHOOSE u \in users : TRUE))
    /\ students = {[id |-> i, email |-> <<"s">>, name |-> <<"n">>] : i \in 1..2}
    /\ reports = {DailyReport(i, 1, IF i % 2 = 1 THEN Jan1 ELSE Jan2, <<"k">>, None,
                              None, None, i) : i \in 1..ListStored}
    /\ files = {}
    /\ tasks = <<>>
    /\ outbox = {}
    /\ now = ListStored
    /\ h = [w \in Workers |-> Idle]

ListNext ==
    \/ logout(1)
    \/ google_callback_begin(1, Profile(<<"a">>))
    \/ google_callback_commit(1)
    \/ now < ListStored + ListMaxTicks /\ Tick
    \/ \E id \in 1..2, d \in {Jan1, Jan2} :
          /\ ReportRoom(ListMaxReports)
          /\ create_report_begin(1, id, d, <<"k">>, None, None, FALSE)
    \/ create_report_insert(1)
    \/ \E id \in 1..2 : report_list(1, id)
    \/ \E id \in 1..2 : student_detail(1, id)
    \/ Respond(1)

ListSpec == ListInit /\ [][ListNext]_vars

\* One browser session: dev logins, Google callbacks, logouts and gated
\* requests, one at a time, with dev_mode off (the default) or on.
LoginInit ==
    \E dev_mode \in BOOLEAN : InitWith([DefaultSettings EXCEPT !.dev_mode = dev_mode])

LoginNext ==
    \/ login_dev(1)
    \/ logout(1)
    \/ \E hs \in LoginHandshakes : google_callback_begin(1, hs)
    \/ google_callback_commit(1)
    \/ \E q \in {None, Some(<<"n">>)} : students_page(1, q)
    \/ Cardinality(students) < MaxStudents /\ create_student(1, <<"n">>, <<"s">>)
    \/ \E id \in 1..MaxStudents : student_edit_submit(1, id, <<"m">>, <<"s">>)
    \/ \E id \in 1..MaxStudents : student_detail(1, id)
    \/ \E id \in 1..MaxStudents : student_delete_begin(1, id)
    \/ student_delete_cleanup(1)
    \/ student_delete_commit(1)
    \/ Respond(1)

LoginSpec == LoginInit /\ [][LoginNext]_vars

\* Rows and files under OwnerSpec.
OwnerMaxStudents == 2
OwnerMaxReports == 2
OwnerMaxUploads == 1

\* Reports of two students, edited and deleted through either student's path
\* and under report ids that may name no report.
OwnerNext ==
    \/ google_callback_begin(1, Profile(<<"a">>))
    \/ google_callback_commit(1)
    \/ Cardinality(students) < OwnerMaxStudents /\ create_student(1, <<"n">>, <<"s">>)
    \/ \E id \in 1..OwnerMaxStudents, has_file \in BOOLEAN :
          /\ ReportRoom(OwnerMaxReports)
          /\ has_file => UploadRoom(OwnerMaxUploads)
          /\ create_report_begin(1, id, Jan1, <<"k">>, None, None, has_file)
    \/ create_report_insert(1)
    \/ \E id \in 1..(OwnerMaxStudents + 1), rid \in 1..(OwnerMaxReports + 1),
          d \in {NotADate, Jan2}, clear_image_upload \in {None, Some(<<"1">>)} :
          report_edit_submit(1, id, rid, d, <<"e">>, None, Some(<<"v">>), None,
                             clear_image_upload, FALSE)
    \/ \E id \in 1..(OwnerMaxStudents + 1), rid \in 1..(OwnerMaxReports + 1) :
          report_delete(1, id, rid)
    \/ Respond(1)

OwnerSpec == Init /\ [][OwnerNext]_vars

\* Rows and files under UploadSpec.
UploadMaxStudents == 2
UploadMaxReports == 2
UploadMaxUploads == 2

\* Worker w's request had no unlink fail: disk_path.unlink() raised no
\* OSError in _try_delete_uploaded_file.
EveryUnlinkSucceeds(w) ==
    /\ (h'[w].op \in {"report_edit_submit", "report_delete"} /\ h'[w].resp.flash = "success")
          => h'[w].loc.failed = {}
    /\ (h'[w].op = "student_delete" /\ h'[w].pc = "commit") => h'[w].loc.failed = {}

\* Reports with and without uploads created, edited and deleted, and students
\* deleted, one request at a time, every file deletion succeeding.
UploadNext ==
    \/ google_callback_begin(1, Profile(<<"a">>))
    \/ google_callback_commit(1)
    \/ Cardinality(students) < UploadMaxStudents /\ create_student(1, <<"n">>, <<"s">>)
    \/ \E id \in 1..UploadMaxStudents, d \in {NotADate, Jan1}, has_file \in BOOLEAN :
          /\ ReportRoom(UploadMaxReports)
          /\ has_file => UploadRoom(UploadMaxUploads)
          /\ create_report_begin(1, id, d, <<"k">>, None, None, has_file)
    \/ create_report_insert(1)
    \/ \E id \in 1..UploadMaxStudents, rid \in 1..UploadMaxReports, d \in {NotADate, Jan1},
          clear_image_upload \in {None, Some(<<"1">>)}, has_file \in BOOLEAN :
          /\ has_file => Cardinality(LiveNames) <= UploadMaxUploads
          /\ report_edit_submit(1, id, rid, d, <<"k">>, None, None, None,
                                clear_image_upload, has_file)
          /\ EveryUnlinkSucceeds(1)
    \/ \E id \in 1..UploadMaxStudents, rid \in 1..UploadMaxReports :
          report_delete(1, id, rid) /\ EveryUnlinkSucceeds(1)
    \/ \E id \in 1..UploadMaxStudents : student_delete_begin(1, id)
    \/ student_delete_cleanup(1) /\ EveryUnlinkSucceeds(1)
    \/ student_delete_commit(1)
    \/ Respond(1)

UploadSpec == Init /\ [][UploadNext]_vars

\* ------------------------------------------------------------------ claims
GatedRoutes ==
    {"students_page", "create_student", "student_edit_page", "student_edit_submit",
     "student_delete", "student_detail", "report_list", "report_new",
     "create_report", "report_edit_page", "report_edit_submit", "report_delete",
     "send_report_command"}

MutatingRoutes ==
    {"create_student", "student_edit_submit", "student_delete", "create_report",
     "report_edit_submit", "report_delete"}

NoIdentity == session = None \/ Val(session).email = <<>>

\* C1: a request to a gated route made while the session stores no identity,
\* or an identity whose email is empty, is answered in one step with the 303
\* redirect to /login; the handler issues no query and no Student row,
\* DailyReport row, uploaded file or email task changes.
C1_GateRedirectsToLogin ==
    [][\A w \in Workers :
          (IsIdle(w) /\ h'[w].op \in GatedRoutes /\ NoIdentity)
             => /\ h'[w].pc = "done"
                /\ h'[w].resp = LoginRedirect
                /\ ~h'[w].queried
                /\ h'[w].background = <<>>
                /\ UNCHANGED <<students, reports, files, tasks, outbox>>]_vars

\* C1 witness: a create-report request was redirected to /login while the
\* session held an identity with an empty email and a student was stored.
C1_Witness ==
    \E w \in Workers :
        /\ Done(w) /\ h[w].op = "create_report" /\ ~h[w].authed
        /\ h[w].resp = LoginRedirect
        /\ session # None /\ Val(session).email = <<>>
        /\ students # {}

\* C10: every authenticated mutating request ends in a 303 redirect, never in
\* a 404 or a server error.
C10_MutationsEndInRedirect ==
    \A w \in Workers :
        (Done(w) /\ h[w].authed /\ h[w].op \in MutatingRoutes)
            => h[w].resp.status = 303

\* C3: a login that completes for a profile whose email, trimmed and
\* lowercased, is e leaves exactly one DormUser with email e; when a row for e
\* was there already (an earlier login's), that row keeps its id and email and
\* takes the name and picture of this login; every other row is untouched.
C3_UpsertKeepsOneRow ==
    [][\A w \in Workers :
          (h[w].op = "google_callback" /\ h[w].pc = "upsert_write" /\ h'[w].pc = "done")
             => LET userinfo == Val(h[w].args.userinfo)
                    e == lower(strip(Val(userinfo.email)))
                IN  /\ Cardinality({u \in users' : u.email = e}) = 1
                    /\ \A old \in users :
                          IF old.email = e
                          THEN [id |-> old.id, email |-> e,
                                name |-> UpsertName(userinfo),
                                picture_url |-> userinfo.picture] \in users'
                          ELSE old \in users'
                    /\ Cardinality(users') =
                          Cardinality(users) + (IF \E old \in users : old.email = e
                                                THEN 0 ELSE 1)]_vars

\* C3 witness: a second login has completed whose email differs as written
\* from the stored one, the row it found now carrying its picture.
C3_Witness ==
    \E w \in Workers :
        /\ Done(w) /\ h[w].op = "google_callback" /\ h[w].resp.status = 303
        /\ h[w].resp.flash = "success"
        /\ h[w].loc.existing # None
        /\ Val(Val(h[w].args.userinfo).email) # h[w].loc.email
        /\ \E u \in users : /\ u.id = Val(h[w].loc.existing)
                            /\ u.email = <<"a">>
                            /\ u.name = <<"G">>
                            /\ u.picture_url = Some("p")

\* C4: concurrent logins for one email create at most one DormUser, and each
\* of them completes as a login (the one that loses the unique index is
\* treated as finding the row already there).
C4_ConcurrentLoginsComplete ==
    /\ \A u1, u2 \in users : u1.email = u2.email => u1 = u2
    /\ \A w \in Workers :
          (Done(w) /\ h[w].op = "google_callback")
              => h[w].resp = Redirect(<<"/students">>, "success", "Signed in")

\* C9: every DailyReport row refers to a Student row that exists.
C9_NoOrphanReports ==
    \A r \in reports : \E st \in students : st.id = r.student_id

\* The step that ends worker w's student_delete.
DeleteCommits(w) ==
    h[w].op = "student_delete" /\ h[w].pc = "commit" /\ h'[w].pc = "done"

\* C2 as stated: when the deletion of a student ends, no report of the
\* student and no student row is left, and every backing file the cleanup
\* found is gone from the uploads directory, whichever unlinks failed.
C2_DeleteRemovesEveryFile ==
    [][\A w \in Workers :
          DeleteCommits(w)
             => /\ \A r \in reports' : r.student_id # h[w].args.student_id
                /\ \A st \in students' : st.id # h[w].args.student_id
                /\ h[w].loc.tried \cap files' = {}]_vars

\* C2 as amended: when the deletion of a student ends, no report of the
\* student and no student row is left, the rows of other students are as
\* before, and every backing file whose unlink did not fail is gone; a file
\* whose unlink failed is still in the uploads directory.
C2_DeleteRemovesRowsAndUnlinkedFiles ==
    [][\A w \in Workers :
          DeleteCommits(w)
             => /\ \A r \in reports' : r.student_id # h[w].args.student_id
                /\ \A st \in students' : st.id # h[w].args.student_id
                /\ \A r \in reports : r.student_id # h[w].args.student_id => r \in reports'
                /\ \A st \in students : st.id # h[w].args.student_id => st \in students'
                /\ (h[w].loc.tried \ h[w].loc.failed) \cap files' = {}
                /\ h[w].loc.failed \subseteq files'
                /\ h'[w].resp = Redirect(<<"/students">>, "success", "Student deleted")]_vars

\* C2 witness: a student with two reports, each with an uploaded file, has
\* been deleted while another student is stored; one unlink failed and its
\* file is the one left in the directory.
C2_Witness ==
    \E w \in Workers :
        /\ Done(w) /\ h[w].op = "student_delete" /\ h[w].resp.flash = "success"
        /\ Cardinality(h[w].loc.owned) = 2
        /\ Cardinality(h[w].loc.tried) = 2
        /\ Cardinality(h[w].loc.failed) = 1
        /\ files = h[w].loc.failed
        /\ reports = {}
        /\ Cardinality(students) = 1

\* C5: every stored DailyReport has no rating or a rating from 1 to 5, and a
\* create or edit request with a rating outside that range does not succeed.
C5_StoredRatingsInRange ==
    /\ \A r \in reports : RatingInRange(r.rating)
    /\ \A w \in Workers :
          (/\ Done(w) /\ h[w].authed
           /\ h[w].op \in {"create_report", "report_edit_submit"}
           /\ ~RatingInRange(h[w].args.rating))
              => h[w].resp.flash # "success"

\* The step in which worker w answers a send request that found a report.
SendAnswers(w) ==
    /\ IsIdle(w) /\ h'[w].op = "send_report_command" /\ h'[w].authed
    /\ h'[w].loc.found

Unset(o) == o = None \/ Val(o) = <<>>

\* C6: a send request that finds a report is answered at once: with the
\* configuration error and no background task when the mail server's host or
\* the sender is unset, with the acceptance and exactly one background task
\* otherwise; and running a background task, delivered or not, changes no
\* response.
C6_SendAnswersAtOnce ==
    [][/\ \A w \in Workers :
             SendAnswers(w)
                => /\ h'[w].pc = "done" /\ h'[w].resp.status = 200
                   /\ tasks' = tasks
                   /\ IF Unset(settings.smtp_host) \/ Unset(settings.smtp_from)
                      THEN /\ h'[w].resp.flash = "error"
                           /\ h'[w].resp.msg = "SMTP is not configured"
                           /\ h'[w].background = <<>>
                      ELSE /\ h'[w].resp.flash = "success"
                           /\ Len(h'[w].background) = 1
                           /\ h'[w].background[1].to_email
                                 = Val(GetStudent(h'[w].args.student_id)).email
       /\ Len(tasks') < Len(tasks) => h' = h]_vars

\* C6 witness: a send request was accepted and its one task waits for the
\* response to go out.
C6_Witness ==
    \E w \in Workers :
        /\ Done(w) /\ h[w].op = "send_report_command" /\ h[w].authed
        /\ h[w].loc.found
        /\ h[w].resp.flash = "success"
        /\ Len(h[w].background) = 1
        /\ tasks = <<>> /\ outbox = {}

\* The sort key of a report: later dates first, then later creation first.
DateNumber(d) == d[1] * 10000 + d[2] * 100 + d[3]

InOrder(a, b) ==
    \/ DateNumber(a.report_date) > DateNumber(b.report_date)
    \/ DateNumber(a.report_date) = DateNumber(b.report_date) /\ a.created_at >= b.created_at

Sorted(rows) == \A i, j \in 1..Len(rows) : i < j => InOrder(rows[i], rows[j])

Rows(rows) == {rows[i] : i \in 1..Len(rows)}

\* C7: the report list of student S is the stored reports of S, each once, by
\* report_date descending and then creation time descending; the detail view
\* is the first DetailLimit entries of such an order.
C7_ListsAreOrdered ==
    \A w \in Workers :
        (Done(w) /\ h[w].authed /\ h[w].resp.status = 200) =>
            LET rows == h[w].resp.body
                owned == {r \in reports : r.student_id = h[w].args.student_id}
            IN  /\ h[w].op = "report_list"
                      => /\ Rows(rows) = owned
                         /\ Len(rows) = Cardinality(owned)
                         /\ Sorted(rows)
                /\ h[w].op = "student_detail"
                      => /\ Rows(rows) \subseteq owned
                         /\ Len(rows) = Cardinality(Rows(rows))
                         /\ Len(rows) = IF Cardinality(owned) < DetailLimit
                                        THEN Cardinality(owned) ELSE DetailLimit
                         /\ Sorted(rows)
                         /\ \A r \in owned \ Rows(rows) :
                               \A i \in 1..Len(rows) : InOrder(rows[i], r)

\* C7 witness: the detail view of a student with more than DetailLimit
\* reports, two of them created at the same tick on the same date, shows
\* DetailLimit of them.
C7_Witness ==
    \E w \in Workers :
        /\ Done(w) /\ h[w].op = "student_detail" /\ h[w].resp.status = 200
        /\ Cardinality({r \in reports : r.student_id = h[w].args.student_id}) > DetailLimit
        /\ Len(h[w].resp.body) = DetailLimit
        /\ \E a, b \in reports :
              /\ a # b /\ a.student_id = b.student_id
              /\ a.report_date = b.report_date /\ a.created_at = b.created_at
        /\ \E r \in reports : r.student_id # h[w].args.student_id

\* The step in which worker w's edit request succeeds.
EditSucceeds(w) ==
    /\ IsIdle(w) /\ h'[w].op = "report_edit_submit" /\ h'[w].authed
    /\ h'[w].resp.flash = "success"

\* C8: an edit that carries a set clear_image_url flag and a non-empty
\* image_url leaves the report without an image_url, whatever it had.
C8_ClearFlagWins ==
    [][\A w \in Workers :
          (/\ EditSucceeds(w)
           /\ Truthy(h'[w].args.clear_image_url)
           /\ Truthy(h'[w].args.image_url))
              => \E r \in reports' :
                    /\ r.id = h'[w].args.report_id
                    /\ r.image_url = None
                    /\ \A o \in reports' : o.id = r.id => o = r]_vars

\* C8 witness: a report that had a pasted URL was edited with the flag set
\* and another URL in the form, and now has none.
C8_Witness ==
    \E w \in Workers :
        /\ Done(w) /\ h[w].op = "report_edit_submit" /\ h[w].resp.flash = "success"
        /\ h[w].args.clear_image_url = Some(<<"1">>)
        /\ h[w].args.image_url = Some(<<"v">>)
        /\ h[w].loc.old.image_url = Some(<<"u">>)
        /\ \E r \in reports : r.id = h[w].args.report_id /\ r.image_url = None

\* C11: when a request ends, the database session its handler was given has
\* been released: no completed request holds an open session.
C11_SessionsReleased ==
    \A w \in Workers : Done(w) => h[w].db # "open"

\* The session holds an authenticated identity: one with a non-empty email.
Authenticated(sess) == sess # None /\ Val(sess).email # <<>>

\* The step that ends worker w's Google callback after the profile was read.
CallbackCompletes(w) ==
    h[w].op = "google_callback" /\ h[w].pc = "upsert_write" /\ h'[w].pc = "done"

\* C12: the session changes only in a dev login made with dev_mode on, in a
\* Google callback whose profile has a non-empty email, and in a logout; the
\* first two leave an authenticated identity and the logout leaves none.  A
\* dev login with dev_mode off, a failed or profile-less handshake and every
\* gated request leave the session as it was, and a failed or profile-less
\* handshake leaves the DormUser table as it was.
C12_SessionFollowsLastLogin ==
    [][\A w \in Workers :
          /\ (IsIdle(w) /\ h'[w].op = "login_dev")
                => IF settings.dev_mode THEN Authenticated(session')
                   ELSE session' = session
          /\ (IsIdle(w) /\ h'[w].op = "logout") => session' = None
          /\ (h'[w].op \in GatedRoutes /\ h'[w] # h[w]) => session' = session
          /\ (IsIdle(w) /\ h'[w].op = "google_callback")
                => /\ session' = session /\ users' = users
                   /\ (~h'[w].args.ok \/ h'[w].args.userinfo = None
                          \/ Val(h'[w].args.userinfo).email \in {None, Some(<<>>)})
                         => h'[w].pc = "done" /\ h'[w].resp.flash = "error"
          /\ (CallbackCompletes(w) /\ h'[w].resp.status = 303)
                => Authenticated(session')
          /\ (Done(w) /\ IsIdle(w)') => session' = session]_vars

\* The step in which worker w answers an authenticated edit or delete request
\* whose report_id names no report of the student in the path.
NotOwnedRequest(w) ==
    /\ IsIdle(w) /\ h'[w].op \in {"report_edit_submit", "report_delete"}
    /\ h'[w].authed
    /\ \A r \in reports :
          r.id = h'[w].args.report_id => r.student_id # h'[w].args.student_id

\* C13 as stated: an edit or delete request whose report_id names no report,
\* or a report of another student, is answered 'Report not found' and leaves
\* every Student row, DailyReport row and uploaded file as it was.
C13_ForeignReportNotFound ==
    [][\A w \in Workers :
          NotOwnedRequest(w)
             => /\ h'[w].pc = "done"
                /\ h'[w].resp = ReportNotFound(h'[w].args.student_id)
                /\ UNCHANGED <<students, reports, files>>]_vars

\* C13 as amended: such a request is answered with the redirect carrying
\* 'Report not found', or, when it is an edit and the path names no student,
\* the one carrying 'Student not found'; either way every Student row,
\* DailyReport row and uploaded file is as it was.
C13_ForeignReportUntouched ==
    [][\A w \in Workers :
          NotOwnedRequest(w)
             => /\ h'[w].pc = "done"
                /\ h'[w].resp =
                      IF /\ h'[w].op = "report_edit_submit"
                         /\ \A st \in students : st.id # h'[w].args.student_id
                      THEN StudentNotFound
                      ELSE ReportNotFound(h'[w].args.student_id)
                /\ UNCHANGED <<students, reports, files>>]_vars

\* C13 witness: an edit asking to drop the upload reached, through the path
\* of another stored student, a report that has an uploaded file; it was
\* answered 'Report not found' and the report and its file are still there.
C13_Witness ==
    \E w \in Workers :
        /\ Done(w) /\ h[w].op = "report_edit_submit" /\ h[w].authed
        /\ h[w].resp = ReportNotFound(h[w].args.student_id)
        /\ Truthy(h[w].args.clear_image_upload)
        /\ \E st \in students : st.id = h[w].args.student_id
        /\ \E r \in reports :
              /\ r.id = h[w].args.report_id
              /\ r.student_id # h[w].args.student_id
              /\ r.image_path # None
              /\ Val(r.image_path)[2] \in files
              /\ r.notes = <<"k">>

\* No request is under way.
Quiescent == \A w \in Workers : h[w].pc \in {"idle", "done"}

\* The file names the stored reports record.
RecordedNames == {Val(r.image_path)[2] : r \in {x \in reports : x.image_path # None}}

\* C14: between requests, the files of the uploads directory are exactly the
\* files the stored reports record as image_path, and no two reports record
\* the same one.
C14_UploadsMatchReports ==
    Quiescent
       => /\ files = RecordedNames
          /\ \A r1, r2 \in reports :
                (r1 # r2 /\ r1.image_path # None) => r1.image_path # r2.image_path

\* C14 witness: an edit has replaced the upload of one report while another
\* report keeps an upload of its own.
C14_Witness ==
    /\ Quiescent
    /\ \E w \in Workers :
          /\ Done(w) /\ h[w].op = "report_edit_submit" /\ h[w].resp.flash = "success"
          /\ h[w].args.has_file
          /\ h[w].loc.old.image_path # None
          /\ \E r \in reports :
                /\ r.id = h[w].args.report_id
                /\ r.image_path \notin {None, h[w].loc.old.image_path}
          /\ \E r \in reports : r.id # h[w].args.report_id /\ r.image_path # None
    /\ Cardinality(files) = 2

====
